---- MODULE Spec2Model ----
(***************************************************************************)
(* Model of PaddleNLP/examples/dialogue/lic2021/finetune.py: checkpoint    *)
(* I/O (load_ckpt, save_ckpt), the training loop of main() as run by one   *)
(* or several data-parallel worker processes, and the evaluation loop.     *)
(*                                                                         *)
(* Tensors are abstracted to integers: a model state is [w |-> n], the     *)
(* number of parameter updates folded into it; an optimizer state is       *)
(* [t |-> n, last_epoch |-> n], the number of optimizer steps and of       *)
(* learning-rate-schedule steps it has seen.  A data stream is a sequence  *)
(* of batches, each carrying its target-token count and its summed loss.   *)
(* Strings (paths) are sequences of tokens.                                *)
(***************************************************************************)
EXTENDS Integers, Sequences, FiniteSets, TLC

\* ------------------------------------------------------------------ bounds
MaxWorkers == 2      \* worker processes spawned (world size) at most
MaxEpochs == 2       \* args.epochs at most
MaxBatches == 2      \* batches in the training stream at most
MaxValid == 1        \* batches in the validation stream at most
MaxInterval == 2     \* args.logging_steps and args.save_steps at most
PrevStep == 2        \* step count embedded in the checkpoint given to init_from_ckpt
MaxName == 11        \* largest checkpoint name of the round-trip harness
MaxState == 2        \* largest model/optimizer counter of the round-trip harness

VARIABLES
    world_size,        \* dist.get_world_size()
    args,              \* the run configuration (immutable)
    train_dataloader,  \* the training stream: a sequence of batches
    valid_dataloader,  \* the validation stream: a sequence of batches
    files,             \* the file system: path -> stored state dict
    pc,                \* pc[r]: position of process r in main()/evaluation()
    epoch,             \* epoch[r]: epochs started (loop variable of line 95, +1)
    batch,             \* batch[r]: batches drawn from the stream in this epoch
    step,              \* step[r]: the global step counter of line 93
    total_time,        \* total_time[r]: elapsed-time accumulator, in ticks
    training,          \* training[r]: model is in training mode
    grad_enabled,      \* grad_enabled[r]: autograd records gradients
    grads,             \* grads[r]: number of backward passes accumulated
    params,            \* params[r]: model.state_dict()
    opt,               \* opt[r]: optimizer.state_dict()
    ops,               \* ops[r]: operations done on the current batch, in order
    ev,                \* ev[r]: locals of evaluation()
    logged,            \* logged[r]: steps at which r printed a training log line
    resets,            \* resets[r]: steps at which r reset total_time to 0.0
    evalRuns,          \* evalRuns[r]: steps at which r entered evaluation()
    evalReports,       \* evalReports[r]: steps at which r printed an eval summary
    wrote,             \* wrote[r]: paths r wrote with paddle.save, in order
    readPaths          \* readPaths[r]: paths r read with paddle.load

cfgVars == <<world_size, args, train_dataloader, valid_dataloader>>
loopVars == <<epoch, batch, step, total_time>>
modelVars == <<training, grad_enabled, grads, params, opt>>
histVars == <<logged, resets, evalRuns, evalReports, wrote, readPaths>>
vars == <<cfgVars, files, pc, loopVars, modelVars, ops, ev, histVars>>

Ranks == 0 .. (world_size - 1)

\* ------------------------------------------------------- strings and paths
Digits == <<"0", "1", "2", "3", "4", "5", "6", "7", "8", "9">>

\* '{}'.format(n) for a non-negative integer n
RECURSIVE Str(_)
Str(n) == IF n < 10 THEN <<Digits[n + 1]>>
          ELSE Str(n \div 10) \o <<Digits[(n % 10) + 1]>>

\* os.path.join(a, b) (POSIX)
PathJoin(a, b) ==
    IF b # <<>> /\ Head(b) = "/" THEN b
    ELSE IF a = <<>> \/ a[Len(a)] = "/" THEN a \o b
    ELSE a \o <<"/">> \o b

\* line 27
params_path(output_dir, name) == PathJoin(output_dir, Str(name) \o <<".pdparams">>)

\* line 28, with the slip of reusing the parameter file's extension
opt_path_clobber(output_dir, name) == PathJoin(output_dir, Str(name) \o <<".pdparams">>)

\* line 28
opt_path(output_dir, name) == PathJoin(output_dir, Str(name) \o <<".pdopt">>)

\* paddle.save(obj, path): the file at path now holds obj
paddle_save(fs, obj, path) ==
    [p \in (DOMAIN fs) \cup {path} |-> IF p = path THEN obj ELSE fs[p]]

\* save_ckpt, both writes succeeding
save_ckpt(fs, model, optimizer, output_dir, name) ==
    paddle_save(paddle_save(fs, model, params_path(output_dir, name)),
                optimizer, opt_path(output_dir, name))

\* load_ckpt: has_optimizer is the truth value of the optimizer argument.
\* ok = FALSE is paddle.load raising on an absent file.
load_ckpt(fs, init_from_ckpt, model, optimizer, has_optimizer) ==
    LET pp == init_from_ckpt \o <<".pdparams">>
        op == init_from_ckpt \o <<".pdopt">>
    IN  IF pp \notin DOMAIN fs
        THEN [ok |-> FALSE, model |-> model, optimizer |-> optimizer, read |-> {pp}]
        ELSE IF ~has_optimizer
        THEN [ok |-> TRUE, model |-> fs[pp], optimizer |-> optimizer, read |-> {pp}]
        ELSE IF op \notin DOMAIN fs
        THEN [ok |-> FALSE, model |-> fs[pp], optimizer |-> optimizer, read |-> {pp, op}]
        ELSE [ok |-> TRUE, model |-> fs[pp], optimizer |-> fs[op], read |-> {pp, op}]

\* ------------------------------------------------------------ construction
\* BaselineModel(...): a freshly constructed model
FreshModel == [w |-> 0]

\* AdamW(learning_rate=NoamDecay(...)): a freshly constructed optimizer
FreshOptimizer == [t |-> 0, last_epoch |-> 0]

\* A stream of n batches; batch i has i target tokens and summed loss 2*i
Stream(n) == [i \in 1 .. n |-> [tokens |-> i, loss |-> 2 * i]]

\* The checkpoint args.init_from_ckpt names, written by an earlier run's
\* save_ckpt at its step PrevStep
PretrainedDir == <<"pre">>
PretrainedPrefix == PathJoin(PretrainedDir, Str(PrevStep))
PretrainedFS ==
    save_ckpt(<<>>, [w |-> PrevStep], [t |-> PrevStep, last_epoch |-> PrevStep],
              PretrainedDir, PrevStep)

\* line 93, had the counter been taken from the loaded optimizer state
InitialStepResumed(fs, init_from_ckpt) ==
    IF init_from_ckpt # <<>> /\ (init_from_ckpt \o <<".pdopt">>) \in DOMAIN fs
    THEN fs[init_from_ckpt \o <<".pdopt">>].last_epoch
    ELSE 0

\* line 93: step = 0
InitialStep(fs, init_from_ckpt) == 0

\* the rank gate of lines 96 and 112, dropped
EveryRank(r) == TRUE

\* the rank gate of lines 96 and 112: rank == 0
IsCoordinator(r) == r = 0

\* lines 144-146 with IEEE division (NaN/Inf instead of an exception)
EvalArithNaN(total_tokens, evstep) == "ok"

\* lines 144-146: total_loss / total_tokens and elapsed / step; with no batch
\* processed total_loss is the Python float 0.0 and total_tokens the int 0, so
\* the division raises ZeroDivisionError
EvalArith(total_tokens, evstep) ==
    IF total_tokens = 0 \/ evstep = 0 THEN "ZeroDivisionError" ELSE "ok"

\* ----------------------------------------------------------------- initial
\* parse_args(): the options main() reads, started with the given init_from_ckpt
TypeArgs(ckpts) ==
    [epochs : 1 .. MaxEpochs,
     logging_steps : 1 .. MaxInterval,
     save_steps : 1 .. MaxInterval,
     init_from_ckpt : ckpts,
     save_dir : {<<"out">>}]

\* lines 33-38: every spawned process starts main() at its top
InitProcs ==
    /\ epoch = [r \in Ranks |-> 0]
    /\ batch = [r \in Ranks |-> 0]
    /\ total_time = [r \in Ranks |-> 0]
    /\ training = [r \in Ranks |-> TRUE]
    /\ grad_enabled = [r \in Ranks |-> TRUE]
    /\ grads = [r \in Ranks |-> 0]
    /\ ops = [r \in Ranks |-> <<>>]
    /\ ev = [r \in Ranks |-> [idx |-> 0, step |-> 0, total_tokens |-> 0, total_loss |-> 0]]
    /\ logged = [r \in Ranks |-> {}]
    /\ resets = [r \in Ranks |-> {}]
    /\ evalRuns = [r \in Ranks |-> {}]
    /\ evalReports = [r \in Ranks |-> {}]
    /\ wrote = [r \in Ranks |-> <<>>]
    /\ readPaths = [r \in Ranks |-> {}]

\* lines 151-158 and 33-88: the processes, their models, optimizers and streams
InitRun(ckpts) ==
    /\ world_size \in 1 .. MaxWorkers
    /\ args \in TypeArgs(ckpts)
    /\ train_dataloader \in {Stream(n) : n \in 0 .. MaxBatches}
    /\ valid_dataloader \in {Stream(n) : n \in 0 .. MaxValid}
    /\ files = PretrainedFS
    /\ pc = [r \in Ranks |-> "start"]
    /\ step = [r \in Ranks |-> 0]
    /\ params = [r \in Ranks |-> FreshModel]
    /\ opt = [r \in Ranks |-> FreshOptimizer]
    /\ InitProcs

\* a run started without --init_from_ckpt
Init == InitRun({<<>>})

\* a run started from the checkpoint of an earlier run
InitResume == InitRun({PretrainedPrefix})

\* ------------------------------------------------------------ main(), setup
\* lines 90-94: optional load_ckpt(args.init_from_ckpt, model), then the counters
Start(r) ==
    /\ pc[r] = "start"
    /\ LET res == IF args.init_from_ckpt # <<>>
                  THEN load_ckpt(files, args.init_from_ckpt, params[r], opt[r], FALSE)
                  ELSE [ok |-> TRUE, model |-> params[r], optimizer |-> opt[r], read |-> {}]
       IN  /\ params' = [params EXCEPT ![r] = res.model]
           /\ opt' = [opt EXCEPT ![r] = res.optimizer]
           /\ readPaths' = [readPaths EXCEPT ![r] = @ \cup res.read]
           /\ pc' = [pc EXCEPT ![r] = IF res.ok THEN "epoch" ELSE "fatal"]
    /\ step' = [step EXCEPT ![r] = InitialStep(files, args.init_from_ckpt)]
    /\ total_time' = [total_time EXCEPT ![r] = 0]
    /\ UNCHANGED <<cfgVars, files, epoch, batch, training, grad_enabled, grads, ops, ev,
                   logged, resets, evalRuns, evalReports, wrote>>

\* lines 95-98: head of the epoch loop
EpochHead(r) ==
    /\ pc[r] = "epoch"
    /\ IF epoch[r] < args.epochs
       THEN /\ epoch' = [epoch EXCEPT ![r] = @ + 1]
            /\ batch' = [batch EXCEPT ![r] = 0]
            /\ pc' = [pc EXCEPT ![r] = "fetch"]
       ELSE /\ pc' = [pc EXCEPT ![r] = "done"]
            /\ UNCHANGED <<epoch, batch>>
    /\ UNCHANGED <<cfgVars, files, step, total_time, modelVars, ops, ev, histVars>>

\* lines 99-101: head of the batch loop; step += 1
Fetch(r) ==
    /\ pc[r] = "fetch"
    /\ IF batch[r] < Len(train_dataloader)
       THEN /\ batch' = [batch EXCEPT ![r] = @ + 1]
            /\ step' = [step EXCEPT ![r] = @ + 1]
            /\ ops' = [ops EXCEPT ![r] = <<>>]
            /\ pc' = [pc EXCEPT ![r] = "forward"]
       ELSE /\ pc' = [pc EXCEPT ![r] = "epoch"]
            /\ UNCHANGED <<batch, step, ops>>
    /\ UNCHANGED <<cfgVars, files, epoch, total_time, modelVars, ev, histVars>>

\* ------------------------------------------------------- main(), one batch
\* lines 103-104: logits = model(...)
Forward(r) ==
    /\ pc[r] = "forward"
    /\ ops' = [ops EXCEPT ![r] = Append(@, "forward")]
    /\ pc' = [pc EXCEPT ![r] = "loss"]
    /\ UNCHANGED <<cfgVars, files, loopVars, modelVars, ev, histVars>>

\* line 105: loss = F.cross_entropy(logits, tgt_label)
Loss(r) ==
    /\ pc[r] = "loss"
    /\ ops' = [ops EXCEPT ![r] = Append(@, "loss")]
    /\ pc' = [pc EXCEPT ![r] = "backward"]
    /\ UNCHANGED <<cfgVars, files, loopVars, modelVars, ev, histVars>>

\* Process q has entered the backward pass of global step s
Arrived(q, s) ==
    \/ step[q] > s
    \/ step[q] = s /\ pc[q] \notin {"forward", "loss"}

\* line 106: loss.backward(); under paddle.DataParallel (lines 61-62) the
\* gradients are all-reduced, which completes once every worker has entered
\* the backward pass of the same step
Backward(r) ==
    /\ pc[r] = "backward"
    /\ \A q \in Ranks : Arrived(q, step[r])
    /\ grads' = [grads EXCEPT ![r] = IF grad_enabled[r] THEN @ + 1 ELSE @]
    /\ ops' = [ops EXCEPT ![r] = Append(@, "backward")]
    /\ pc' = [pc EXCEPT ![r] = "optstep"]
    /\ UNCHANGED <<cfgVars, files, loopVars, training, grad_enabled, params, opt, ev,
                   histVars>>

\* line 107: optimizer.step()
OptStep(r) ==
    /\ pc[r] = "optstep"
    /\ params' = [params EXCEPT ![r] = [w |-> @.w + grads[r]]]
    /\ opt' = [opt EXCEPT ![r] = [@ EXCEPT !.t = @ + 1]]
    /\ ops' = [ops EXCEPT ![r] = Append(@, "optimizer.step")]
    /\ pc' = [pc EXCEPT ![r] = "lrstep"]
    /\ UNCHANGED <<cfgVars, files, loopVars, training, grad_enabled, grads, ev, histVars>>

\* line 108: lr_scheduler.step()
LrStep(r) ==
    /\ pc[r] = "lrstep"
    /\ opt' = [opt EXCEPT ![r] = [@ EXCEPT !.last_epoch = @ + 1]]
    /\ ops' = [ops EXCEPT ![r] = Append(@, "lr_scheduler.step")]
    /\ pc' = [pc EXCEPT ![r] = "cleargrad"]
    /\ UNCHANGED <<cfgVars, files, loopVars, training, grad_enabled, grads, params, ev,
                   histVars>>

\* line 109 left out: the gradients stay accumulated
ClearGradSkipped(r) ==
    /\ pc[r] = "cleargrad"
    /\ ops' = [ops EXCEPT ![r] = Append(@, "clear_grad")]
    /\ pc' = [pc EXCEPT ![r] = "cadence"]
    /\ UNCHANGED <<cfgVars, files, loopVars, modelVars, ev, histVars>>

\* line 109: optimizer.clear_grad()
ClearGrad(r) ==
    /\ pc[r] = "cleargrad"
    /\ grads' = [grads EXCEPT ![r] = 0]
    /\ ops' = [ops EXCEPT ![r] = Append(@, "clear_grad")]
    /\ pc' = [pc EXCEPT ![r] = "cadence"]
    /\ UNCHANGED <<cfgVars, files, loopVars, training, grad_enabled, params, opt, ev,
                   histVars>>

\* lines 111-120 and 123 with the logging test of line 113 off by one
CadenceLogOffByOne(r) ==
    /\ pc[r] = "cadence"
    /\ LET log == IsCoordinator(r) /\ (step[r] + 1) % args.logging_steps = 0
           save == IsCoordinator(r) /\ step[r] % args.save_steps = 0
       IN  /\ total_time' = [total_time EXCEPT ![r] = IF log THEN 0 ELSE @ + 1]
           /\ logged' = [logged EXCEPT ![r] = IF log THEN @ \cup {step[r]} ELSE @]
           /\ resets' = [resets EXCEPT ![r] = IF log THEN @ \cup {step[r]} ELSE @]
           /\ pc' = [pc EXCEPT ![r] = IF save THEN "eval_begin" ELSE "fetch"]
    /\ UNCHANGED <<cfgVars, files, epoch, batch, step, modelVars, ops, ev,
                   evalRuns, evalReports, wrote, readPaths>>

\* lines 111-120 and 123 with the checkpoint test of line 120 off by one
CadenceSaveOffByOne(r) ==
    /\ pc[r] = "cadence"
    /\ LET log == IsCoordinator(r) /\ step[r] % args.logging_steps = 0
           save == IsCoordinator(r) /\ (step[r] + 1) % args.save_steps = 0
       IN  /\ total_time' = [total_time EXCEPT ![r] = IF log THEN 0 ELSE @ + 1]
           /\ logged' = [logged EXCEPT ![r] = IF log THEN @ \cup {step[r]} ELSE @]
           /\ resets' = [resets EXCEPT ![r] = IF log THEN @ \cup {step[r]} ELSE @]
           /\ pc' = [pc EXCEPT ![r] = IF save THEN "eval_begin" ELSE "fetch"]
    /\ UNCHANGED <<cfgVars, files, epoch, batch, step, modelVars, ops, ev,
                   evalRuns, evalReports, wrote, readPaths>>

\* lines 111-120 and 123: total_time += elapsed (one tick per batch); on rank 0,
\* every logging_steps steps print the log line and reset total_time; on rank 0,
\* every save_steps steps go on to evaluation and save_ckpt
Cadence(r) ==
    /\ pc[r] = "cadence"
    /\ LET log == IsCoordinator(r) /\ step[r] % args.logging_steps = 0
           save == IsCoordinator(r) /\ step[r] % args.save_steps = 0
       IN  /\ total_time' = [total_time EXCEPT ![r] = IF log THEN 0 ELSE @ + 1]
           /\ logged' = [logged EXCEPT ![r] = IF log THEN @ \cup {step[r]} ELSE @]
           /\ resets' = [resets EXCEPT ![r] = IF log THEN @ \cup {step[r]} ELSE @]
           /\ pc' = [pc EXCEPT ![r] = IF save THEN "eval_begin" ELSE "fetch"]
    /\ UNCHANGED <<cfgVars, files, epoch, batch, step, modelVars, ops, ev,
                   evalRuns, evalReports, wrote, readPaths>>

\* ------------------------------------------------------------- evaluation()
\* lines 126-133: @paddle.no_grad(), model.eval(), the accumulators
EvalBegin(r) ==
    /\ pc[r] = "eval_begin"
    /\ grad_enabled' = [grad_enabled EXCEPT ![r] = FALSE]
    /\ training' = [training EXCEPT ![r] = FALSE]
    /\ ev' = [ev EXCEPT ![r] = [idx |-> 0, step |-> 0, total_tokens |-> 0, total_loss |-> 0]]
    /\ evalRuns' = [evalRuns EXCEPT ![r] = @ \cup {step[r]}]
    /\ pc' = [pc EXCEPT ![r] = "eval_iter"]
    /\ UNCHANGED <<cfgVars, files, loopVars, grads, params, opt, ops,
                   logged, resets, evalReports, wrote, readPaths>>

\* lines 134-136: head of the validation loop; step += 1
EvalIter(r) ==
    /\ pc[r] = "eval_iter"
    /\ IF ev[r].idx < Len(valid_dataloader)
       THEN /\ ev' = [ev EXCEPT ![r] = [@ EXCEPT !.idx = @ + 1, !.step = @ + 1]]
            /\ pc' = [pc EXCEPT ![r] = "eval_forward"]
       ELSE /\ pc' = [pc EXCEPT ![r] = "eval_end"]
            /\ UNCHANGED ev
    /\ UNCHANGED <<cfgVars, files, loopVars, modelVars, ops, histVars>>

\* lines 138-142: forward, summed loss, accumulate loss and token count
EvalForward(r) ==
    /\ pc[r] = "eval_forward"
    /\ LET b == valid_dataloader[ev[r].idx]
       IN  ev' = [ev EXCEPT ![r] = [@ EXCEPT !.total_loss = @ + b.loss,
                                             !.total_tokens = @ + b.tokens]]
    /\ pc' = [pc EXCEPT ![r] = "eval_iter"]
    /\ UNCHANGED <<cfgVars, files, loopVars, modelVars, ops, histVars>>

\* lines 144-148 without the model.train() of line 148
EvalEndNoTrain(r) ==
    /\ pc[r] = "eval_end"
    /\ grad_enabled' = [grad_enabled EXCEPT ![r] = TRUE]
    /\ IF EvalArith(ev[r].total_tokens, ev[r].step) = "ok"
       THEN /\ evalReports' = [evalReports EXCEPT ![r] = @ \cup {step[r]}]
            /\ pc' = [pc EXCEPT ![r] = "save_params"]
       ELSE /\ pc' = [pc EXCEPT ![r] = "fatal"]
            /\ UNCHANGED evalReports
    /\ UNCHANGED <<cfgVars, files, loopVars, training, grads, params, opt, ops, ev,
                   logged, resets, evalRuns, wrote, readPaths>>

\* lines 144-148: mean loss, perplexity, speed; print the summary;
\* model.train(); leaving the function (normally or by the exception) ends the
\* no_grad context
EvalEnd(r) ==
    /\ pc[r] = "eval_end"
    /\ grad_enabled' = [grad_enabled EXCEPT ![r] = TRUE]
    /\ IF EvalArith(ev[r].total_tokens, ev[r].step) = "ok"
       THEN /\ evalReports' = [evalReports EXCEPT ![r] = @ \cup {step[r]}]
            /\ training' = [training EXCEPT ![r] = TRUE]
            /\ pc' = [pc EXCEPT ![r] = "save_params"]
       ELSE /\ pc' = [pc EXCEPT ![r] = "fatal"]
            /\ UNCHANGED <<evalReports, training>>
    /\ UNCHANGED <<cfgVars, files, loopVars, grads, params, opt, ops, ev,
                   logged, resets, evalRuns, wrote, readPaths>>

\* -------------------------------------------------- save_ckpt() from main()
\* lines 27-29 (called at line 122 with name = step): the parameter file; a
\* failing paddle.save raises, which ends the run
SaveParams(r) ==
    /\ pc[r] = "save_params"
    /\ \E outcome \in {"ok", "IOError"} :
          IF outcome = "ok"
          THEN LET path == params_path(args.save_dir, step[r])
               IN  /\ files' = paddle_save(files, params[r], path)
                   /\ wrote' = [wrote EXCEPT ![r] = Append(@, path)]
                   /\ pc' = [pc EXCEPT ![r] = "save_opt"]
          ELSE /\ pc' = [pc EXCEPT ![r] = "fatal"]
               /\ UNCHANGED <<files, wrote>>
    /\ UNCHANGED <<cfgVars, loopVars, modelVars, ops, ev,
                   logged, resets, evalRuns, evalReports, readPaths>>

\* line 30: the optimizer file; then line 123 and back to the batch loop
SaveOpt(r) ==
    /\ pc[r] = "save_opt"
    /\ \E outcome \in {"ok", "IOError"} :
          IF outcome = "ok"
          THEN LET path == opt_path(args.save_dir, step[r])
               IN  /\ files' = paddle_save(files, opt[r], path)
                   /\ wrote' = [wrote EXCEPT ![r] = Append(@, path)]
                   /\ pc' = [pc EXCEPT ![r] = "fetch"]
          ELSE /\ pc' = [pc EXCEPT ![r] = "fatal"]
               /\ UNCHANGED <<files, wrote>>
    /\ UNCHANGED <<cfgVars, loopVars, modelVars, ops, ev,
                   logged, resets, evalRuns, evalReports, readPaths>>

Next ==
    \/ \E r \in Ranks : Start(r)
    \/ \E r \in Ranks : EpochHead(r)
    \/ \E r \in Ranks : Fetch(r)
    \/ \E r \in Ranks : Forward(r)
    \/ \E r \in Ranks : Loss(r)
    \/ \E r \in Ranks : Backward(r)
    \/ \E r \in Ranks : OptStep(r)
    \/ \E r \in Ranks : LrStep(r)
    \/ \E r \in Ranks : ClearGrad(r)
    \/ \E r \in Ranks : Cadence(r)
    \/ \E r \in Ranks : EvalBegin(r)
    \/ \E r \in Ranks : EvalIter(r)
    \/ \E r \in Ranks : EvalForward(r)
    \/ \E r \in Ranks : EvalEnd(r)
    \/ \E r \in Ranks : SaveParams(r)
    \/ \E r \in Ranks : SaveOpt(r)

Spec == Init /\ [][Next]_vars

SpecResume == InitResume /\ [][Next]_vars

\* ------------------------------------------- save_ckpt / load_ckpt round trip
\* Process 0 holds a model state and an optimizer state and calls
\* save_ckpt(model, optimizer, save_dir, name) with name = step[0]; process 1
\* holds a freshly constructed model and optimizer and calls load_ckpt on the
\* prefix os.path.join(save_dir, str(name)), with or without its optimizer.
SaveDirs == {<<"out">>, <<"out", "/">>, <<>>}

InitRT ==
    /\ world_size = 2
    /\ args \in [epochs : {1}, logging_steps : {1}, save_steps : {1},
                 init_from_ckpt : {<<>>}, save_dir : SaveDirs]
    /\ train_dataloader = Stream(0)
    /\ valid_dataloader = Stream(0)
    /\ step \in [Ranks -> 0 .. MaxName]
    /\ step[1] = 0
    /\ params \in [Ranks -> [w : 0 .. MaxState]]
    /\ params[1] = FreshModel
    /\ opt \in [Ranks -> [t : 0 .. MaxState, last_epoch : 0 .. MaxState]]
    /\ opt[1] = FreshOptimizer
    /\ files \in {PretrainedFS,
                  save_ckpt(PretrainedFS, [w |-> MaxState + 1],
                            [t |-> MaxState + 1, last_epoch |-> MaxState + 1],
                            args.save_dir, step[0])}
    /\ pc = [r \in Ranks |-> IF r = 0 THEN "rt_save" ELSE "rt_fresh"]
    /\ InitProcs

\* lines 26-30: a save_ckpt call that returns
RTSave ==
    /\ pc[0] = "rt_save"
    /\ files' = save_ckpt(files, params[0], opt[0], args.save_dir, step[0])
    /\ wrote' = [wrote EXCEPT ![0] = @ \o <<params_path(args.save_dir, step[0]),
                                            opt_path(args.save_dir, step[0])>>]
    /\ pc' = [pc EXCEPT ![0] = "rt_saved"]
    /\ UNCHANGED <<cfgVars, loopVars, modelVars, ops, ev,
                   logged, resets, evalRuns, evalReports, readPaths>>

\* lines 17-23: load_ckpt(prefix, model[, optimizer]) into the fresh objects
RTLoad(has_optimizer) ==
    /\ pc[0] = "rt_saved"
    /\ pc[1] = "rt_fresh"
    /\ LET res == load_ckpt(files, PathJoin(args.save_dir, Str(step[0])),
                            params[1], opt[1], has_optimizer)
       IN  /\ params' = [params EXCEPT ![1] = res.model]
           /\ opt' = [opt EXCEPT ![1] = res.optimizer]
           /\ readPaths' = [readPaths EXCEPT ![1] = @ \cup res.read]
           /\ pc' = [pc EXCEPT ![1] = IF ~res.ok THEN "fatal"
                                      ELSE IF has_optimizer THEN "rt_loaded_both"
                                      ELSE "rt_loaded_model"]
    /\ UNCHANGED <<cfgVars, files, loopVars, training, grad_enabled, grads, ops, ev,
                   logged, resets, evalRuns, evalReports, wrote>>

NextRT ==
    \/ RTSave
    \/ \E has_optimizer \in BOOLEAN : RTLoad(has_optimizer)

SpecRT == InitRT /\ [][NextRT]_vars

\* ------------------------------------------------------------------ claims
PreCadence == {"forward", "loss", "backward", "optstep", "lrstep", "cleargrad", "cadence"}
InEvaluation == {"eval_begin", "eval_iter", "eval_forward", "eval_end"}

\* the global steps whose logging test (line 113) process r has gone past
LogPassed(r) == {s \in 1 .. step[r] : s < step[r] \/ pc[r] \notin PreCadence}

\* the global steps whose loop body (lines 100-123) process r has finished
BodyDone(r) == {s \in 1 .. step[r] : s < step[r] \/ pc[r] \in {"fetch", "epoch", "done"}}

Multiples(m, n) == {s \in 1 .. n : s % m = 0}
TotalSteps == args.epochs * Len(train_dataloader)
Written(r) == {wrote[r][i] : i \in 1 .. Len(wrote[r])}
HasParams(s) == params_path(args.save_dir, s) \in DOMAIN files
HasOpt(s) == opt_path(args.save_dir, s) \in DOMAIN files

\* C1: on rank 0 evaluation followed by save_ckpt happens at the global steps
\* that are multiples of save_steps and at no other step; the evaluation has
\* printed its summary before the first file of the checkpoint is written; the
\* files are named by the global step; the step counter runs on across epochs;
\* a run that reaches its end has evaluated and saved at every multiple of
\* save_steps up to epochs * batches.
CheckpointCadence ==
    LET m == args.save_steps
    IN  /\ evalRuns[0] \subseteq Multiples(m, step[0])
        /\ \A s \in BodyDone(0) :
              /\ s \in evalReports[0] <=> s % m = 0
              /\ HasParams(s) <=> s % m = 0
              /\ HasOpt(s) <=> s % m = 0
        /\ \A s \in 1 .. TotalSteps : s % m # 0 => ~HasParams(s) /\ ~HasOpt(s)
        /\ \A i \in 1 .. Len(wrote[0]) :
              /\ wrote[0][i] = IF i % 2 = 1
                               THEN params_path(args.save_dir, m * ((i + 1) \div 2))
                               ELSE opt_path(args.save_dir, m * (i \div 2))
              /\ m * ((i + 1) \div 2) \in evalReports[0]
        /\ pc[0] \in {"save_params", "save_opt"} => step[0] \in evalReports[0]
        /\ step[0] = (IF epoch[0] = 0 THEN 0 ELSE (epoch[0] - 1) * Len(train_dataloader))
                     + batch[0]
        /\ pc[0] = "done" =>
              /\ step[0] = TotalSteps
              /\ evalReports[0] = Multiples(m, TotalSteps)
              /\ Len(wrote[0]) = 2 * Cardinality(Multiples(m, TotalSteps))

\* a finished run whose second epoch wrote a checkpoint named by a step beyond
\* the first epoch, and which skipped a step that is no multiple of save_steps
CheckpointCadenceWitness ==
    /\ pc[0] = "done"
    /\ args.epochs = 2
    /\ args.save_steps = 2
    /\ Len(train_dataloader) = 2
    /\ HasParams(4) /\ HasOpt(4) /\ ~HasParams(3)

\* C2: on rank 0 a training log line is printed at global step s iff s is a
\* positive multiple of logging_steps, the accumulator total_time is reset at
\* exactly those steps, and so holds the ticks of the steps since the last log.
LoggingCadence ==
    LET k == args.logging_steps
    IN  /\ logged[0] = {s \in LogPassed(0) : s % k = 0}
        /\ resets[0] = {s \in LogPassed(0) : s % k = 0}
        /\ total_time[0] = Cardinality(LogPassed(0)) % k

\* rank 0 has logged in the second epoch and has passed a step without logging
LoggingCadenceWitness ==
    /\ args.logging_steps = 2
    /\ epoch[0] = 2
    /\ logged[0] = {2}
    /\ 3 \in LogPassed(0)
    /\ total_time[0] = 1

\* C3: with an empty validation stream evaluation never prints a summary and,
\* once its loop is over, the process is in the fatal state; no checkpoint
\* follows it.
EmptyValidationIsFatal ==
    Len(valid_dataloader) = 0 =>
        \A r \in Ranks :
            /\ evalReports[r] = {}
            /\ wrote[r] = <<>>
            /\ evalRuns[r] # {} /\ pc[r] \notin InEvaluation => pc[r] = "fatal"

\* evaluation was entered with an empty stream and has ended
EmptyValidationWitness ==
    /\ Len(valid_dataloader) = 0
    /\ evalRuns[0] # {}
    /\ ev[0].total_tokens = 0
    /\ pc[0] = "fatal"

\* C4: only rank 0 prints a log line or writes a checkpoint file, and no two
\* processes write the same file.
RankGate ==
    /\ \A r \in Ranks : r # 0 => logged[r] = {} /\ resets[r] = {} /\ wrote[r] = <<>>
    /\ \A r, q \in Ranks : r # q => Written(r) \cap Written(q) = {}

\* a second worker has finished its loop while rank 0 logged and saved
RankGateWitness ==
    /\ world_size >= 2
    /\ pc[1] = "done"
    /\ step[1] >= 2
    /\ logged[0] # {}
    /\ Len(wrote[0]) >= 2

\* C5 (as claimed): whenever no process is inside save_ckpt, the output
\* directory holds the parameter file of a checkpoint name iff it holds the
\* optimizer file of that name.
NoPartialCheckpoint ==
    (\A r \in Ranks : pc[r] \notin {"save_params", "save_opt"}) =>
        \A s \in 1 .. TotalSteps : HasParams(s) <=> HasOpt(s)

\* C6: after save_ckpt(M, O, d, n), load_ckpt on the prefix join(d, n) with a
\* fresh model and optimizer succeeds, leaves the model equal to M and the
\* optimizer equal to O, and reads exactly the two files save_ckpt wrote;
\* without an optimizer only the model is restored, the optimizer stays fresh
\* and the optimizer file is not read.
RoundTrip ==
    /\ pc[1] # "fatal"
    /\ pc[1] = "rt_loaded_both" =>
          /\ params[1] = params[0]
          /\ opt[1] = opt[0]
          /\ readPaths[1] = Written(0)
    /\ pc[1] = "rt_loaded_model" =>
          /\ params[1] = params[0]
          /\ opt[1] = FreshOptimizer
          /\ readPaths[1] = {params_path(args.save_dir, step[0])}
          /\ opt_path(args.save_dir, step[0]) \notin readPaths[1]

\* a two-digit checkpoint name in a directory given with a trailing slash,
\* non-fresh states, loaded with the optimizer
RoundTripWitness ==
    /\ pc[1] = "rt_loaded_both"
    /\ step[0] >= 10
    /\ args.save_dir = <<"out", "/">>
    /\ params[1] # FreshModel
    /\ opt[1] # FreshOptimizer
    /\ opt[1].t # opt[1].last_epoch

\* the operations of one batch, in the order of lines 103-109
BatchOps == <<"forward", "loss", "backward", "optimizer.step", "lr_scheduler.step",
              "clear_grad">>

\* how many of them process r has done on its current batch
OpsDone(r) ==
    CASE pc[r] = "forward" -> 0
      [] pc[r] = "loss" -> 1
      [] pc[r] = "backward" -> 2
      [] pc[r] = "optstep" -> 3
      [] pc[r] = "lrstep" -> 4
      [] pc[r] = "cleargrad" -> 5
      [] OTHER -> IF step[r] = 0 THEN 0 ELSE 6

\* C7: on every batch the six operations happen in the order forward, loss,
\* backward, optimizer step, schedule step, gradient clear, each once (so the
\* optimizer and the schedule have stepped once per batch), and every forward
\* pass of the training loop starts with zero accumulated gradients.
BatchOrder ==
    \A r \in Ranks :
        /\ ops[r] = SubSeq(BatchOps, 1, OpsDone(r))
        /\ opt[r].t = step[r] - (IF OpsDone(r) < 4 THEN 1 ELSE 0) + (IF step[r] = 0 THEN 1 ELSE 0)
        /\ opt[r].last_epoch = step[r] - (IF OpsDone(r) < 5 THEN 1 ELSE 0)
                               + (IF step[r] = 0 THEN 1 ELSE 0)
        /\ pc[r] = "forward" => grads[r] = 0
        /\ pc[r] \in InEvaluation => grads[r] = 0

\* a forward pass of the training loop right after an evaluation and a save
BatchOrderWitness ==
    /\ pc[0] = "forward"
    /\ step[0] - 1 \in evalReports[0]
    /\ HasOpt(step[0] - 1)
    /\ opt[0].t = step[0] - 1

\* C8: every forward pass inside evaluation runs in evaluation mode with
\* gradients disabled; when evaluation has returned the model is in training
\* mode again; every forward pass of the training loop runs in training mode
\* with gradients enabled.
ModeInvariant ==
    \A r \in Ranks :
        /\ pc[r] \in {"eval_iter", "eval_forward", "eval_end"} =>
              ~training[r] /\ ~grad_enabled[r]
        /\ pc[r] \in {"save_params", "save_opt"} => training[r] /\ grad_enabled[r]
        /\ pc[r] \in PreCadence \cup {"fetch", "epoch", "done"} =>
              training[r] /\ grad_enabled[r]

\* a training forward pass after two evaluations
ModeInvariantWitness ==
    /\ pc[0] = "forward"
    /\ Cardinality(evalReports[0]) >= 2
    /\ training[0]

\* C9 (as claimed): every worker has entered evaluation at every multiple of
\* save_steps whose loop body it has finished.
EveryWorkerEvaluates ==
    \A r \in Ranks : Multiples(args.save_steps, step[r]) \cap BodyDone(r) \subseteq evalRuns[r]

\* C9 (amended): only rank 0 enters evaluation, reads the validation stream or
\* writes; rank 0 does so at every multiple of save_steps it has finished.
OnlyCoordinatorEvaluates ==
    /\ \A r \in Ranks : r # 0 =>
          /\ evalRuns[r] = {}
          /\ evalReports[r] = {}
          /\ ev[r].idx = 0
          /\ wrote[r] = <<>>
          /\ training[r]
    /\ Multiples(args.save_steps, step[0]) \cap BodyDone(0) \subseteq evalRuns[0]

\* a second worker has finished a multiple of save_steps that rank 0 evaluated
\* over a non-empty validation stream
OnlyCoordinatorEvaluatesWitness ==
    /\ world_size >= 2
    /\ Multiples(args.save_steps, step[1]) \cap BodyDone(1) # {}
    /\ evalReports[0] # {}
    /\ ev[0].idx >= 1

\* C10 (as claimed): a run started from a checkpoint whose optimizer state
\* encodes a step counts its global steps from that step on, and names its
\* checkpoints by steps after it.
ResumeContinuesStep ==
    args.init_from_ckpt # <<>> =>
        /\ \A r \in Ranks : pc[r] \notin {"start", "fatal"} =>
              step[r] >= InitialStepResumed(files, args.init_from_ckpt)
        /\ \A s \in 1 .. InitialStepResumed(files, args.init_from_ckpt) :
              ~HasParams(s) /\ ~HasOpt(s)

\* C10 (amended): a run started from a checkpoint restores the model
\* parameters only (the optimizer file is not read, the optimizer starts
\* fresh) and counts its global steps from zero whatever step the checkpoint
\* encodes; its checkpoints are named save_steps, 2*save_steps, ...
ResumeStartsFromZero ==
    args.init_from_ckpt # <<>> =>
        /\ \A r \in Ranks : pc[r] # "start" =>
              /\ step[r] = (IF epoch[r] = 0 THEN 0
                            ELSE (epoch[r] - 1) * Len(train_dataloader)) + batch[r]
              /\ readPaths[r] = {args.init_from_ckpt \o <<".pdparams">>}
              /\ opt[r].last_epoch <= step[r]
              /\ params[r].w = files[args.init_from_ckpt \o <<".pdparams">>].w + opt[r].t
        /\ \A i \in 1 .. Len(wrote[0]) :
              wrote[0][i] = IF i % 2 = 1
                            THEN params_path(args.save_dir, args.save_steps * ((i + 1) \div 2))
                            ELSE opt_path(args.save_dir, args.save_steps * (i \div 2))

\* a resumed run has written a checkpoint named by a step that is not after
\* the step of the checkpoint it started from
ResumeStartsFromZeroWitness ==
    /\ args.init_from_ckpt = PretrainedPrefix
    /\ files[PretrainedPrefix \o <<".pdopt">>].last_epoch = PrevStep
    /\ HasParams(1) /\ HasOpt(1)
    /\ params[0].w > PrevStep

====
